---- MODULE Spec2Model ----
(***************************************************************************)
(* Model of the peer discovery and liveliness engine of crawler.go: the    *)
(* liveliness sweeper (Crawler.liveliness), the random-walk loop           *)
(* (Crawler.initCrawler / randomWalk / crawlFromKey), the connection probe *)
(* (Crawler.ephemeralConnection) and the key-value store both loops share. *)
(* Program counters are the line numbers of crawler.go.                    *)
(***************************************************************************)
EXTENDS Integers, Sequences, FiniteSets, TLC

\* ------------------------------------------------------------------ bounds
\* Longest candidate list one GetClosestPeers query returns.
MaxCands == 2
\* Number of candidates all the queries of a run return together.
MaxFound == 3

\* ------------------------------------------------------------------- keys
\* A key is a sequence of tokens; "." is the separator strings.Split looks for.
currentDate == "2019-11-26"
PeerA == <<"QmA">>
PeerB == <<"QmB">>
Peers == {PeerA, PeerB}
todayCount == <<currentDate, ".", "count">>
todayLeft == <<currentDate, ".", "left">>
totalCount == <<"total", ".", "count">>
totalLeft == <<"total", ".", "left">>
Counters == {todayCount, todayLeft, totalCount, totalLeft}
Keys == Peers \cup Counters
\* The order in which the store's iterator yields keys (bytewise: digits, then
\* upper case, then lower case).
SortedKeys == <<todayCount, todayLeft, PeerA, PeerB, totalCount, totalLeft>>

\* len(strings.Split(key, ".")): one more than the number of separators.
SplitLen(k) == 1 + Cardinality({i \in DOMAIN k : k[i] = "."})

\* ----------------------------------------------------------------- values
\* type SeenNode struct { NAT bool; lastSeen string }
ZeroNode == [NAT |-> FALSE, lastSeen |-> ""]
\* strconv.FormatInt(time.Now().UTC().UnixNano(), 10): a string of digits,
\* never empty.
timestamp == "1574760000000000000"
\* What the store holds under a key: nothing, an encoded SeenNode, or a
\* counter written as a decimal number.
Absent == [kind |-> "absent"]
Marshal(n) == [kind |-> "json", NAT |-> n.NAT, lastSeen |-> n.lastSeen]
Itoa(n) == [kind |-> "int", n |-> n]
\* A value that json.Unmarshal cannot decode into a SeenNode.
Malformed == [kind |-> "garbage"]
\* json.Unmarshal([]byte(value), &node) into a fresh SeenNode: NAT is
\* decoded, the unexported lastSeen is not; a value that does not decode
\* leaves the zero SeenNode (the error is dropped).
Unmarshal(v) ==
    IF v.kind = "json" THEN [NAT |-> v.NAT, lastSeen |-> ""] ELSE ZeroNode

\* ------------------------------------------------------------------ probe
Nil == "<nil>"
DeadlineExceeded == "context deadline exceeded"
ConnRefused == "connection refused"
\* What one host.Connect call can return.
ConnectResults == {Nil, DeadlineExceeded, ConnRefused}
timeEphemeralConnections == 5

\* Faulty variant of ephemeralConnection: retries after any error.
ephemeralConnectionRetryAny(r1, r2) ==
    LET first == [timeout |-> timeEphemeralConnections, result |-> r1]
        second == [timeout |-> 4 * timeEphemeralConnections, result |-> r2]
    IN  IF r1 # Nil
        THEN [err |-> r2, calls |-> <<first, second>>]
        ELSE [err |-> r1, calls |-> <<first>>]

\* ephemeralConnection, given what the first and (if made) the second
\* Connect call return: the error returned and the calls made.
ephemeralConnection(r1, r2) ==
    LET first == [timeout |-> timeEphemeralConnections, result |-> r1]
        second == [timeout |-> 4 * timeEphemeralConnections, result |-> r2]
    IN  IF r1 = DeadlineExceeded
        THEN [err |-> r2, calls |-> <<first, second>>]
        ELSE [err |-> r1, calls |-> <<first>>]

VARIABLES
    db,         \* c.db: key -> stored value
    mux,        \* c.mux: "free", or the loop holding it
    cancelled,  \* c.ctx is done
    \* liveliness
    spc,        \* line the sweeper is at
    iter,       \* entries the iterator has still to yield
    key,        \* key of the entry being handled
    value,      \* value of the entry being handled, as the iterator read it
    canConnectErrL, \* canConnectErr of liveliness
    callsL,     \* Connect calls of the probe liveliness has just made
    node,       \* decoded SeenNode
    counterL,   \* value updateCount has read and not yet written back
    \* initCrawler / crawlFromKey
    wpc,        \* line the walk loop is at
    ps,         \* candidates of the walk in progress
    idx,        \* index in ps of the candidate being handled
    canConnectErrW, \* canConnectErr of crawlFromKey
    callsW,     \* Connect calls of the probe crawlFromKey has just made
    stored,     \* what getSeenNode returned
    getErr,     \* the error getSeenNode returned (dropped at line 274)
    counterW,   \* value updateCount has read and not yet written back
    found,      \* candidates the queries have returned so far
    \* history
    net,        \* per counter: increments issued minus decrements issued
    held,       \* the counters as they were when the mutex was taken
    pass        \* the sweep passes made since the walk loop returned

sweepVars == <<spc, iter, key, value, canConnectErrL, callsL, node, counterL>>
walkVars ==
    <<wpc, ps, idx, canConnectErrW, callsW, stored, getErr, counterW, found>>
vars == <<db, mux, cancelled, sweepVars, walkVars, net, held, pass>>

None == <<>>

\* ------------------------------------------------------------------ store
IsNode(v) == v.kind = "json"
\* Integer a counter key holds; a key never written reads as 0.
CounterValue(d, k) == IF d[k].kind = "int" THEN d[k].n ELSE 0
CounterSnapshot(d) == [k \in Counters |-> CounterValue(d, k)]
\* getSeenNode: the stored record, or the zero SeenNode with an error that
\* the caller drops.
getSeenNode(d, k) ==
    IF IsNode(d[k]) THEN [NAT |-> d[k].NAT, lastSeen |-> d[k].lastSeen]
    ELSE ZeroNode
\* storeSeenNode: put the encoded record under the key.
storeSeenNode(d, k, n) == [d EXCEPT ![k] = Marshal(n)]
\* c.db.Delete
Delete(d, k) == [d EXCEPT ![k] = Absent]
\* updateCount, second half: write back the value read, plus or minus one.
updateCountWrite(d, k, read, positive) ==
    [d EXCEPT ![k] = Itoa(IF positive THEN read + 1 ELSE read - 1)]
\* c.db.NewIterator(nil, nil): a snapshot of the entries in key order.
Snapshot(d) ==
    LET present == SelectSeq(SortedKeys, LAMBDA k : d[k] # Absent)
    IN  [i \in DOMAIN present |-> [key |-> present[i], value |-> d[present[i]]]]
\* Faulty variant of PeerEntries: no entry is skipped.
PeerEntriesAll(s) == s

\* The entries the loop body handles: line 73 skips the others.
PeerEntries(s) == SelectSeq(s, LAMBDA e : SplitLen(e.key) = 1)

\* History of the sweep passes made with the walk loop gone (it has returned:
\* line 209): whether the pass in progress is such a pass (solo), the store as
\* it was when the first of them began (start), whether every probe made
\* since then succeeded (ok) and how many passes have been completed since
\* then (n: 0, 1, or 2 for two and more).
NoPass == [solo |-> FALSE, ok |-> FALSE, n |-> 0, start |-> [k \in Keys |-> Absent]]
PassBegins(d) ==
    IF wpc # 209 THEN NoPass
    ELSE IF pass.solo /\ pass.ok THEN pass
    ELSE [solo |-> TRUE, ok |-> TRUE, n |-> 0, start |-> d]
PassProbed(err) ==
    IF pass.solo /\ err # Nil THEN [NoPass EXCEPT !.solo = TRUE] ELSE pass
PassEnds ==
    IF pass.solo /\ pass.ok
    THEN [pass EXCEPT !.n = IF @ < 2 THEN @ + 1 ELSE 2]
    ELSE pass

\* The locals of both loops and the mutex, before either loop has run.
InitLocals ==
    /\ mux = "free"
    /\ cancelled = FALSE
    /\ spc = 62
    /\ iter = <<>>
    /\ key = None
    /\ value = Absent
    /\ canConnectErrL = Nil
    /\ callsL = <<>>
    /\ node = ZeroNode
    /\ counterL = None
    /\ wpc = 204
    /\ ps = <<>>
    /\ idx = 0
    /\ canConnectErrW = Nil
    /\ callsW = <<>>
    /\ stored = ZeroNode
    /\ getErr = Nil
    /\ counterW = None
    /\ found = 0
    /\ held = None
    /\ pass = NoPass

\* newCrawler over an empty store.
Init ==
    /\ db = [k \in Keys |-> Absent]
    /\ net = [k \in Counters |-> 0]
    /\ InitLocals

\* The stores an earlier run can have left, in which the value of at least
\* one peer key has been damaged since: a peer key holds nothing, a damaged
\* value or a record; both count counters hold the number of peer keys present.
DamagedStores ==
    LET PeerValues == {Absent, Malformed}
                        \cup {Marshal([NAT |-> b, lastSeen |-> timestamp]) :
                                b \in BOOLEAN}
        Present(f) == Cardinality({p \in Peers : f[p] # Absent})
        StoreOf(f) == [k \in Keys |->
                        IF k \in Peers THEN f[k]
                        ELSE IF k \in {todayCount, totalCount}
                             THEN Itoa(Present(f))
                        ELSE Absent]
    IN  {StoreOf(f) : f \in {g \in [Peers -> PeerValues] :
                                \E p \in Peers : g[p] = Malformed}}

\* newCrawler over a damaged store.
DamagedInit ==
    /\ db \in DamagedStores
    /\ net = CounterSnapshot(db)
    /\ InitLocals

\* ------------------------------------------------------------ environment
\* The owner of the crawler cancels its context.
Cancel ==
    /\ ~cancelled
    /\ cancelled' = TRUE
    /\ UNCHANGED <<db, mux, sweepVars, walkVars, net, held>>
    /\ UNCHANGED pass

\* ------------------------------------------------------------------ mutex
\* c.mux.Lock() by loop who: blocks until the mutex is free.
Lock(who) ==
    /\ mux = "free"
    /\ mux' = who
    /\ held' = CounterSnapshot(db)
\* c.mux.Unlock()
Unlock ==
    /\ mux' = "free"
    /\ held' = None

\* ------------------------------------------------------------- liveliness
\* Faulty variant of SweepCounts: "total.count" is not decremented.
SweepCountsNoDecrement ==
    104 :> [key |-> todayLeft, positive |-> TRUE, next |-> 107] @@
    107 :> [key |-> totalLeft, positive |-> TRUE, next |-> 110]

\* The counter each updateCount line of liveliness changes, its direction
\* and the line that follows it.
SweepCounts ==
    104 :> [key |-> todayLeft, positive |-> TRUE, next |-> 106] @@
    106 :> [key |-> totalCount, positive |-> FALSE, next |-> 107] @@
    107 :> [key |-> totalLeft, positive |-> TRUE, next |-> 110]

\* The locals of one pass of the loop body, as a new pass finds them.
SweepLocalsReset ==
    /\ key' = None
    /\ value' = Absent
    /\ canConnectErrL' = Nil
    /\ callsL' = <<>>
    /\ node' = ZeroNode

\* Lines 62-66: the select on c.ctx.Done(), executed once.
SweepSelect ==
    /\ spc = 62
    /\ spc' = IF cancelled THEN 65 ELSE 68
    /\ UNCHANGED <<db, mux, cancelled, walkVars, net, held>>
    /\ UNCHANGED <<iter, key, value, canConnectErrL, callsL, node, counterL>>
    /\ UNCHANGED pass

\* Line 68 (label Alive): a new pass takes a new iterator.
SweepNewIterator ==
    /\ spc = 68
    /\ iter' = PeerEntries(Snapshot(db))
    /\ spc' = 70
    /\ pass' = PassBegins(db)
    /\ UNCHANGED <<db, mux, cancelled, walkVars, net, held>>
    /\ UNCHANGED <<key, value, canConnectErrL, callsL, node, counterL>>

\* Lines 70-73: the iterator yields the next entry.
SweepNext ==
    /\ spc = 70
    /\ iter # <<>>
    /\ key' = Head(iter).key
    /\ value' = Head(iter).value
    /\ iter' = Tail(iter)
    /\ spc' = 88
    /\ UNCHANGED <<db, mux, cancelled, walkVars, net, held>>
    /\ UNCHANGED <<canConnectErrL, callsL, node, counterL>>
    /\ UNCHANGED pass

\* Lines 125-126: the iterator is exhausted; goto Alive.
SweepRestart ==
    /\ spc = 70
    /\ iter = <<>>
    /\ spc' = 68
    /\ pass' = PassEnds
    /\ UNCHANGED <<db, mux, cancelled, walkVars, net, held>>
    /\ UNCHANGED <<iter, key, value, canConnectErrL, callsL, node, counterL>>

\* Lines 78-99: probe the peer, decode the value the iterator read, take the
\* timestamp and choose the branch.
SweepProbe ==
    /\ spc = 88
    /\ \E r1, r2 \in ConnectResults :
         /\ canConnectErrL' = ephemeralConnection(r1, r2).err
         /\ callsL' = ephemeralConnection(r1, r2).calls
    /\ node' = Unmarshal(value)
    /\ spc' = IF node'.NAT = FALSE /\ canConnectErrL' # Nil THEN 100 ELSE 114
    /\ pass' = PassProbed(canConnectErrL')
    /\ UNCHANGED <<db, mux, cancelled, walkVars, net, held>>
    /\ UNCHANGED <<iter, key, value, counterL>>

\* Faulty variant of SweepLock: the departure branch does not take the mutex.
SweepLockMissing ==
    /\ spc = 100
    /\ spc' = 104
    /\ callsL' = <<>>
    /\ UNCHANGED <<db, mux, held, cancelled, walkVars, net>>
    /\ UNCHANGED <<iter, key, value, canConnectErrL, node, counterL>>
    /\ UNCHANGED pass

\* Line 100
SweepLock ==
    /\ spc = 100
    /\ Lock("sweep")
    /\ spc' = 104
    /\ callsL' = <<>>
    /\ UNCHANGED <<db, cancelled, walkVars, net>>
    /\ UNCHANGED <<iter, key, value, canConnectErrL, node, counterL>>
    /\ UNCHANGED pass

\* Lines 104, 106, 107: updateCount reads the counter ...
SweepUpdateCountRead ==
    /\ spc \in DOMAIN SweepCounts
    /\ counterL = None
    /\ counterL' = <<CounterValue(db, SweepCounts[spc].key)>>
    /\ net' = [net EXCEPT ![SweepCounts[spc].key] =
                 IF SweepCounts[spc].positive THEN @ + 1 ELSE @ - 1]
    /\ UNCHANGED <<db, mux, cancelled, walkVars, held>>
    /\ UNCHANGED <<spc, iter, key, value, canConnectErrL, callsL, node>>
    /\ UNCHANGED pass

\* ... and writes it back.
SweepUpdateCountWrite ==
    /\ spc \in DOMAIN SweepCounts
    /\ counterL # None
    /\ db' = updateCountWrite(db, SweepCounts[spc].key, counterL[1],
                              SweepCounts[spc].positive)
    /\ counterL' = None
    /\ spc' = SweepCounts[spc].next
    /\ UNCHANGED <<mux, cancelled, walkVars, net, held>>
    /\ UNCHANGED <<iter, key, value, canConnectErrL, callsL, node>>
    /\ UNCHANGED pass

\* Line 110
SweepDelete ==
    /\ spc = 110
    /\ db' = Delete(db, key)
    /\ spc' = 111
    /\ UNCHANGED <<mux, cancelled, walkVars, net, held>>
    /\ UNCHANGED <<iter, key, value, canConnectErrL, callsL, node, counterL>>
    /\ UNCHANGED pass

\* Line 111
SweepUnlock ==
    /\ spc = 111
    /\ Unlock
    /\ spc' = 70
    /\ SweepLocalsReset
    /\ UNCHANGED <<db, cancelled, walkVars, net>>
    /\ UNCHANGED <<iter, counterL>>
    /\ UNCHANGED pass

\* Faulty variant of SweepStore: NAT is written back as it was decoded.
SweepStoreKeepsNat ==
    /\ spc = 114
    /\ db' = storeSeenNode(db, key,
                [NAT |-> node.NAT, lastSeen |-> timestamp])
    /\ spc' = 70
    /\ SweepLocalsReset
    /\ UNCHANGED <<mux, cancelled, walkVars, net, held>>
    /\ UNCHANGED <<iter, counterL>>
    /\ UNCHANGED pass

\* Lines 113-120: the record is rewritten from the decoded copy.
SweepStore ==
    /\ spc = 114
    /\ db' = storeSeenNode(db, key,
                [NAT |-> canConnectErrL # Nil, lastSeen |-> timestamp])
    /\ spc' = 70
    /\ SweepLocalsReset
    /\ UNCHANGED <<mux, cancelled, walkVars, net, held>>
    /\ UNCHANGED <<iter, counterL>>
    /\ UNCHANGED pass

liveliness ==
    \/ SweepSelect
    \/ SweepNewIterator
    \/ SweepNext
    \/ SweepRestart
    \/ SweepProbe
    \/ SweepLock
    \/ SweepUpdateCountRead
    \/ SweepUpdateCountWrite
    \/ SweepDelete
    \/ SweepUnlock
    \/ SweepStore

\* ------------------------------------------- initCrawler and crawlFromKey
\* What GetClosestPeers can send on its channel before closing it.
CandidateLists == UNION {[1..n -> Peers] : n \in 0..MaxCands}

\* pID of the loop at line 246.
pID == ps[idx]

\* The counter each updateCount line of crawlFromKey changes, its direction
\* and the line that follows it.
WalkCounts ==
    283 :> [key |-> todayCount, positive |-> TRUE, next |-> 284] @@
    284 :> [key |-> totalCount, positive |-> TRUE, next |-> 308] @@
    294 :> [key |-> todayLeft, positive |-> TRUE, next |-> 296] @@
    296 :> [key |-> totalCount, positive |-> FALSE, next |-> 297] @@
    297 :> [key |-> totalLeft, positive |-> FALSE, next |-> 300]

\* Faulty variant of WalkBranch: the comparison with the zero SeenNode looks
\* at NAT only.
WalkBranchNatOnly(st, err) ==
    IF st.NAT = ZeroNode.NAT THEN 281
    ELSE IF st.NAT = FALSE /\ err # Nil THEN 294
    ELSE 305

\* Lines 274, 289, 291: the branch taken for what getSeenNode returned.
WalkBranch(st, err) ==
    IF st = ZeroNode THEN 281
    ELSE IF st.NAT = FALSE /\ err # Nil THEN 294
    ELSE 305

\* Faulty variant of WalkSelect: the loop does not look at c.ctx.Done().
WalkSelectIgnoresCancel ==
    /\ wpc = 204
    /\ wpc' = 235
    /\ UNCHANGED <<db, mux, cancelled, sweepVars, net, held>>
    /\ UNCHANGED <<ps, idx, canConnectErrW, callsW, stored, counterW, found>>
    /\ UNCHANGED <<pass, getErr>>

\* Lines 203-213: the select on c.ctx.Done() before each random walk;
\* c.close() and return when the context is done.
WalkSelect ==
    /\ wpc = 204
    /\ wpc' = IF cancelled THEN 209 ELSE 235
    /\ UNCHANGED <<db, mux, cancelled, sweepVars, net, held>>
    /\ UNCHANGED <<ps, idx, canConnectErrW, callsW, stored, counterW, found>>
    /\ UNCHANGED <<pass, getErr>>

\* Lines 234-243: GetClosestPeers returns a channel, which is drained.
WalkQuery ==
    /\ wpc = 235
    /\ \E cands \in CandidateLists :
         /\ found + Len(cands) <= MaxFound
         /\ ps' = cands
         /\ idx' = IF cands = <<>> THEN 0 ELSE 1
         /\ found' = found + Len(cands)
         /\ wpc' = IF cands = <<>> THEN 311 ELSE 263
    /\ UNCHANGED <<db, mux, cancelled, sweepVars, net, held>>
    /\ UNCHANGED <<canConnectErrW, callsW, stored, counterW>>
    /\ UNCHANGED <<pass, getErr>>

\* Lines 235-241: GetClosestPeers returns an error and a nil channel; the
\* error is dropped and the range over the nil channel never ends.
WalkQueryFails ==
    /\ wpc = 235
    /\ wpc' = 241
    /\ UNCHANGED <<db, mux, cancelled, sweepVars, net, held>>
    /\ UNCHANGED <<ps, idx, canConnectErrW, callsW, stored, counterW, found>>
    /\ UNCHANGED <<pass, getErr>>

\* Lines 252-269: probe the candidate and take the timestamp.
WalkProbe ==
    /\ wpc = 263
    /\ \E r1, r2 \in ConnectResults :
         /\ canConnectErrW' = ephemeralConnection(r1, r2).err
         /\ callsW' = ephemeralConnection(r1, r2).calls
    /\ wpc' = 272
    /\ UNCHANGED <<db, mux, cancelled, sweepVars, net, held>>
    /\ UNCHANGED <<ps, idx, stored, counterW, found>>
    /\ UNCHANGED <<pass, getErr>>

\* Line 272
WalkLock ==
    /\ wpc = 272
    /\ Lock("walk")
    /\ wpc' = 274
    /\ callsW' = <<>>
    /\ UNCHANGED <<db, cancelled, sweepVars, net>>
    /\ UNCHANGED <<ps, idx, canConnectErrW, stored, counterW, found>>
    /\ UNCHANGED <<pass, getErr>>

\* Lines 274, 289, 291: look the candidate up and choose the branch.
WalkGet ==
    /\ wpc = 274
    /\ stored' = getSeenNode(db, pID)
    /\ getErr' = Nil
    /\ wpc' = WalkBranch(stored', canConnectErrW)
    /\ UNCHANGED <<db, mux, cancelled, sweepVars, net, held>>
    /\ UNCHANGED <<ps, idx, canConnectErrW, callsW, counterW, found>>
    /\ UNCHANGED pass

\* An error of the store (leveldb I/O failure).
StorageError == "leveldb: i/o error"

\* Line 274 when the lookup fails: getSeenNode returns the zero SeenNode and
\* the error; the error is dropped and the branch is chosen as usual.
WalkGetFails ==
    /\ wpc = 274
    /\ stored' = ZeroNode
    /\ getErr' = StorageError
    /\ wpc' = WalkBranch(stored', canConnectErrW)
    /\ UNCHANGED <<db, mux, cancelled, sweepVars, net, held, pass>>
    /\ UNCHANGED <<ps, idx, canConnectErrW, callsW, counterW, found>>

\* Faulty variant of WalkStoreNew: hasNat is never set.
WalkStoreNewNoNat ==
    /\ wpc = 281
    /\ db' = storeSeenNode(db, pID, [NAT |-> FALSE, lastSeen |-> timestamp])
    /\ wpc' = 283
    /\ UNCHANGED <<mux, cancelled, sweepVars, net, held>>
    /\ UNCHANGED <<ps, idx, canConnectErrW, callsW, stored, counterW, found>>
    /\ UNCHANGED <<pass, getErr>>

\* Lines 275-281: a peer not seen before is stored.
WalkStoreNew ==
    /\ wpc = 281
    /\ db' = storeSeenNode(db, pID,
                [NAT |-> canConnectErrW # Nil, lastSeen |-> timestamp])
    /\ wpc' = 283
    /\ UNCHANGED <<mux, cancelled, sweepVars, net, held>>
    /\ UNCHANGED <<ps, idx, canConnectErrW, callsW, stored, counterW, found>>
    /\ UNCHANGED <<pass, getErr>>

\* Lines 283, 284, 294, 296, 297: updateCount reads the counter ...
WalkUpdateCountRead ==
    /\ wpc \in DOMAIN WalkCounts
    /\ counterW = None
    /\ counterW' = <<CounterValue(db, WalkCounts[wpc].key)>>
    /\ net' = [net EXCEPT ![WalkCounts[wpc].key] =
                 IF WalkCounts[wpc].positive THEN @ + 1 ELSE @ - 1]
    /\ UNCHANGED <<db, mux, cancelled, sweepVars, held>>
    /\ UNCHANGED <<wpc, ps, idx, canConnectErrW, callsW, stored, found>>
    /\ UNCHANGED <<pass, getErr>>

\* ... and writes it back.
WalkUpdateCountWrite ==
    /\ wpc \in DOMAIN WalkCounts
    /\ counterW # None
    /\ db' = updateCountWrite(db, WalkCounts[wpc].key, counterW[1],
                              WalkCounts[wpc].positive)
    /\ counterW' = None
    /\ wpc' = WalkCounts[wpc].next
    /\ UNCHANGED <<mux, cancelled, sweepVars, net, held>>
    /\ UNCHANGED <<ps, idx, canConnectErrW, callsW, stored, found>>
    /\ UNCHANGED <<pass, getErr>>

\* Line 300
WalkDelete ==
    /\ wpc = 300
    /\ db' = Delete(db, pID)
    /\ wpc' = 308
    /\ UNCHANGED <<mux, cancelled, sweepVars, net, held>>
    /\ UNCHANGED <<ps, idx, canConnectErrW, callsW, stored, counterW, found>>
    /\ UNCHANGED <<pass, getErr>>

\* Faulty variant of WalkStoreSeen: NAT is recomputed from the probe.
WalkStoreSeenFromProbe ==
    /\ wpc = 305
    /\ db' = storeSeenNode(db, pID,
                [NAT |-> canConnectErrW # Nil, lastSeen |-> timestamp])
    /\ wpc' = 308
    /\ UNCHANGED <<mux, cancelled, sweepVars, net, held>>
    /\ UNCHANGED <<ps, idx, canConnectErrW, callsW, stored, counterW, found>>
    /\ UNCHANGED <<pass, getErr>>

\* Lines 303-305: a peer seen before is written back with a new lastSeen.
WalkStoreSeen ==
    /\ wpc = 305
    /\ db' = storeSeenNode(db, pID, [stored EXCEPT !.lastSeen = timestamp])
    /\ wpc' = 308
    /\ UNCHANGED <<mux, cancelled, sweepVars, net, held>>
    /\ UNCHANGED <<ps, idx, canConnectErrW, callsW, stored, counterW, found>>
    /\ UNCHANGED <<pass, getErr>>

\* Lines 308-310: unlock, and on to the next candidate if there is one.
WalkUnlock ==
    /\ wpc = 308
    /\ Unlock
    /\ IF idx < Len(ps)
       THEN idx' = idx + 1 /\ wpc' = 263
       ELSE idx' = idx /\ wpc' = 311
    /\ canConnectErrW' = Nil
    /\ callsW' = <<>>
    /\ stored' = ZeroNode
    /\ getErr' = Nil
    /\ UNCHANGED <<db, cancelled, sweepVars, net>>
    /\ UNCHANGED <<ps, counterW, found>>
    /\ UNCHANGED pass

\* Line 311: crawlFromKey and randomWalk return to the loop of initCrawler.
WalkReturn ==
    /\ wpc = 311
    /\ wpc' = 204
    /\ ps' = <<>>
    /\ idx' = 0
    /\ UNCHANGED <<db, mux, cancelled, sweepVars, net, held>>
    /\ UNCHANGED <<canConnectErrW, callsW, stored, counterW, found>>
    /\ UNCHANGED <<pass, getErr>>

initCrawler ==
    \/ WalkSelect
    \/ WalkQuery
    \/ WalkQueryFails
    \/ WalkProbe
    \/ WalkLock
    \/ WalkGet
    \/ WalkStoreNew
    \/ WalkUpdateCountRead
    \/ WalkUpdateCountWrite
    \/ WalkDelete
    \/ WalkStoreSeen
    \/ WalkUnlock
    \/ WalkReturn

\* ---------------------------------------------------------- specification
Next ==
    \/ Cancel
    \/ liveliness
    \/ initCrawler

Spec == Init /\ [][Next]_vars

\* The random-walk loop run on its own, liveliness not started.
WalkNext ==
    \/ Cancel
    \/ initCrawler

WalkSpec == Init /\ [][WalkNext]_vars

\* liveliness run on its own over a damaged store, the walk loop not started.
SweepAloneNext ==
    \/ Cancel
    \/ liveliness

DamagedSweepSpec == DamagedInit /\ [][SweepAloneNext]_vars

\* The walk loop on its own, over a store whose lookups can fail.
FaultyWalkNext ==
    \/ WalkNext
    \/ WalkGetFails

FaultyWalkSpec == Init /\ [][FaultyWalkNext]_vars

\* Both loops run as goroutines: each is scheduled again and again, and a
\* loop waiting for the mutex gets it (sync.Mutex hands the mutex to a
\* waiter that has waited long enough).
FairSpec ==
    /\ Spec
    /\ WF_vars(liveliness)
    /\ WF_vars(initCrawler)
    /\ SF_vars(SweepLock)
    /\ SF_vars(WalkLock)

\* The walk loop on its own, scheduled again and again.
FairWalkSpec == WalkSpec /\ WF_vars(initCrawler)

\* ------------------------------------------------------------ definitions
PeerRecords(d) == {p \in Peers : IsNode(d[p])}
\* The loop that is between the read and the write of updateCount on k.
InFlight(k) ==
    \/ counterL # None /\ spc \in DOMAIN SweepCounts /\ SweepCounts[spc].key = k
    \/ counterW # None /\ wpc \in DOMAIN WalkCounts /\ WalkCounts[wpc].key = k

\* ----------------------------------------------------------------- claims

\* C1: every read-modify-write of a peer record is one critical section: a
\* loop that is about to put or delete a peer record holds the mutex, and the
\* record it decided from is the record the store holds.
C1_RecordUpdateUnderLock ==
    /\ spc \in {110, 114} => mux = "sweep" /\ db[key] = value
    /\ wpc \in {281, 300, 305} =>
         mux = "walk" /\ getSeenNode(db, pID) = stored

\* The sweeper is about to write back a record another loop has deleted
\* since the iterator read it.
C1_Witness == spc = 114 /\ db[key] = Absent /\ IsNode(value)

\* C2: a peer id absent from the store (never seen, or deleted as a
\* departure) becomes present again only when the walk handles it as a
\* candidate and creates it; no write of the sweeper re-creates a record.
C2_OnlyWalkCreates ==
    [][\A p \in Peers :
         db[p] = Absent /\ db'[p] # Absent => wpc = 281 /\ pID = p]_vars

\* C3: when a loop has handled a departure (record with NAT = false, probe
\* failed) the record is gone and "<today>.left" and "total.left" are each
\* one more than when the loop took the mutex.
C3_DepartureRule ==
    /\ spc = 111 =>
         /\ db[key] = Absent
         /\ CounterValue(db, todayLeft) = held[todayLeft] + 1
         /\ CounterValue(db, totalLeft) = held[totalLeft] + 1
    /\ wpc = 308 /\ stored # ZeroNode /\ stored.NAT = FALSE
           /\ canConnectErrW # Nil =>
         /\ db[pID] = Absent
         /\ CounterValue(db, todayLeft) = held[todayLeft] + 1
         /\ CounterValue(db, totalLeft) = held[totalLeft] + 1

\* C4: a record stored with NAT = true is never deleted.
C4_NatSuspectedKept ==
    [][\A p \in Peers :
         IsNode(db[p]) /\ db[p].NAT => db'[p] # Absent]_vars

\* C5: no counter update is lost. Every updateCount runs with the mutex held
\* by the loop that issued it, and a counter on which no updateCount is
\* between its read and its write holds its initial value 0 plus the
\* increments issued minus the decrements issued.
C5_NoLostCounterUpdate ==
    /\ spc \in DOMAIN SweepCounts => mux = "sweep"
    /\ wpc \in DOMAIN WalkCounts => mux = "walk"
    /\ \A k \in Counters : ~InFlight(k) => CounterValue(db, k) = net[k]

\* The sweeper waits for the mutex with a departure to count while the walk
\* is between the read and the write of the counter the sweeper will change
\* first.
C5_Witness ==
    /\ spc = 100
    /\ counterW # None
    /\ WalkCounts[wpc].key = todayLeft
    /\ net[todayLeft] > 1

\* C6: once the context is cancelled the sweeper starts no further pass.
C6_NoPassAfterCancel ==
    [][cancelled => ~(spc = 68 /\ spc' = 70)]_vars

\* C7: once the context is cancelled no new random walk is started; the loop,
\* back at its select with the context cancelled, closes and returns, and
\* having returned it stays returned.
C7_WalkCancellation ==
    /\ [][cancelled => ~(wpc = 204 /\ wpc' = 235)]_vars
    /\ [][wpc = 209 => wpc' = 209]_vars
    /\ (cancelled /\ wpc = 204) ~> (wpc = 209)

\* The loop has returned after a walk that handled candidates.
C7_Witness == wpc = 209 /\ cancelled /\ found > 0

\* C8: a probe that has just returned made one or two Connect calls, the
\* first with timeout timeEphemeralConnections; it made the second, with four
\* times that timeout, exactly when the first returned "context deadline
\* exceeded"; and it returned the result of the last call it made.
ProbeRetryRule(calls, err) ==
    calls # <<>> =>
      /\ Len(calls) \in {1, 2}
      /\ calls[1].timeout = timeEphemeralConnections
      /\ Len(calls) = 2 <=> calls[1].result = DeadlineExceeded
      /\ Len(calls) = 2 => calls[2].timeout = 4 * calls[1].timeout
      /\ err = calls[Len(calls)].result

C8_ProbeRetry ==
    /\ ProbeRetryRule(callsL, canConnectErrL)
    /\ ProbeRetryRule(callsW, canConnectErrW)

\* A first attempt that timed out was followed by one that succeeded.
C8_Witness ==
    /\ wpc = 272
    /\ Len(callsW) = 2
    /\ canConnectErrW = Nil

\* C9: a failed routing query does not block the walk loop: wherever the
\* loop stands after the query, it has returned or it can take a step.
C9_QueryFailureRecovered ==
    wpc \in {241, 311} => ENABLED initCrawler

\* The elements of a sequence.
Range(seq) == {seq[i] : i \in DOMAIN seq}
\* Every candidate returned so far belongs to the walk in progress (so the
\* store held no record when the walk began), and its candidates are pairwise
\* distinct.
FirstWalk == ps # <<>> /\ found = Len(ps) /\ Cardinality(Range(ps)) = Len(ps)

\* A candidate that was found absent has been stored with NAT = (its probe
\* failed).
CreatedAsProbed ==
    wpc = 308 /\ stored = ZeroNode =>
      db[pID] = Marshal([NAT |-> canConnectErrW # Nil, lastSeen |-> timestamp])

\* At the end of a first walk the records are exactly the candidates, and
\* both count counters equal the number of candidates.
CountedOnce ==
    wpc = 311 /\ FirstWalk =>
      /\ PeerRecords(db) = Range(ps)
      /\ CounterValue(db, totalCount) = Len(ps)
      /\ CounterValue(db, todayCount) = Len(ps)

\* C10: first discovery, the walk loop running alone from the empty store,
\* over pairwise distinct candidates: each candidate is stored with NAT =
\* (its probe failed), a record once stored is not changed during the walk,
\* and when the walk has handled its candidates there is exactly one record
\* per candidate and "total.count" and "<today>.count" both equal the number
\* of candidates.
C10_FirstDiscovery ==
    /\ [](CreatedAsProbed /\ CountedOnce)
    /\ [][FirstWalk =>
            \A p \in Peers : IsNode(db[p]) => db'[p] = db[p]]_vars

\* Candidates [A reachable, B unreachable] have been handled: NAT is
\* {A: false, B: true} and both counters are 2.
C10_Witness ==
    /\ wpc = 311
    /\ ps = <<PeerA, PeerB>>
    /\ found = 2
    /\ db[PeerA] = Marshal([NAT |-> FALSE, lastSeen |-> timestamp])
    /\ db[PeerB] = Marshal([NAT |-> TRUE, lastSeen |-> timestamp])
    /\ CounterValue(db, totalCount) = 2
    /\ CounterValue(db, todayCount) = 2

\* The lines of liveliness between c.mux.Lock() and c.mux.Unlock().
SweepLocked == DOMAIN SweepCounts \cup {110, 111}

\* The sweeper, the walk loop gone, has handled the departure of a peer that
\* was stored with NAT = false: the record is deleted, "<today>.left" and
\* "total.left" are one more and "total.count" is one less than when the
\* mutex was taken, and "<today>.count" is as it was.
SweepDeparted ==
    pass.solo /\ spc = 111 /\ IsNode(value) /\ ~value.NAT
        /\ canConnectErrL # Nil =>
      /\ db[key] = Absent
      /\ CounterValue(db, todayLeft) = held[todayLeft] + 1
      /\ CounterValue(db, totalLeft) = held[totalLeft] + 1
      /\ CounterValue(db, totalCount) = held[totalCount] - 1
      /\ CounterValue(db, todayCount) = held[todayCount]

\* C11: sweep departure, no walk running. When the sweeper probes a peer
\* stored with NAT = false as unreachable, the record is deleted,
\* "total.left" and "<today>.left" each go up by 1, "total.count" goes down
\* by 1 and "<today>.count" is unchanged; the three counter updates and the
\* delete are made in one hold of the mutex, on the record as it is stored;
\* and a deleted record stays absent for the rest of the pass.
C11_SweepDeparture ==
    /\ [](spc \in SweepLocked => mux = "sweep")
    /\ [](pass.solo /\ spc \in SweepLocked \ {111} => db[key] = value)
    /\ []SweepDeparted
    /\ [][pass.solo => \A p \in Peers : db[p] = Absent => db'[p] = Absent]_vars

\* The sweeper, alone, has handled the departure of one of two stored peers.
C11_Witness ==
    /\ pass.solo
    /\ spc = 111
    /\ IsNode(value) /\ ~value.NAT
    /\ db[key] = Absent
    /\ held[totalCount] = 2
    /\ CounterValue(db, totalCount) = 1
    /\ CounterValue(db, totalLeft) = 1

\* C12: sweep idempotence, no walk running. While every probe made since a
\* pass began has succeeded, the counters are those the pass began with and
\* the store holds records for the same peers, and no departure is being
\* handled; when such a pass is complete
\* every record has NAT = false and the new lastSeen; and the same is true
\* when a second such pass is complete.
C12_SweepIdempotent ==
    pass.solo /\ pass.ok =>
      /\ CounterSnapshot(db) = CounterSnapshot(pass.start)
      /\ PeerRecords(db) = PeerRecords(pass.start)
      /\ spc \notin SweepLocked \cup {100}
      /\ spc = 68 /\ pass.n >= 1 =>
           \A p \in PeerRecords(db) :
             db[p] = Marshal([NAT |-> FALSE, lastSeen |-> timestamp])

\* Two passes in which every probe succeeded have been made over two
\* records, one of them stored with NAT = true.
C12_Witness ==
    /\ pass.solo /\ pass.ok /\ pass.n = 2
    /\ spc = 68
    /\ PeerRecords(pass.start) = Peers
    /\ pass.start[PeerA].NAT /\ ~pass.start[PeerB].NAT
    /\ CounterValue(db, totalCount) = 2

\* C13: a storage error is not ignored for the record it affects: once the
\* lookup of a candidate has failed, the walk changes no counter and creates
\* or deletes no record until it goes on to its next candidate.
C13_StorageErrorAbandons ==
    [][getErr # Nil => db' = db]_vars

\* The lookup of a candidate that has a record has failed, and the walk is
\* about to store the candidate as a new peer.
C13_Witness ==
    /\ wpc = 281
    /\ getErr = StorageError
    /\ IsNode(db[pID])

\* C14: a peer key whose value cannot be decoded is handled as if it had no
\* record: while the sweeper handles such a key no counter changes, whatever
\* the probe returned.
C14_MalformedNotCounted ==
    [][value = Malformed => CounterSnapshot(db') = CounterSnapshot(db)]_vars

\* The sweeper has counted a departure for a key whose value is damaged.
C14_Witness ==
    /\ spc = 110
    /\ value = Malformed
    /\ CounterValue(db, totalLeft) = 1

\* The lines of crawlFromKey after the probe of a candidate and up to the
\* write of its record.
WalkProbed == {272, 274, 281, 294, 296, 297, 300, 305}

\* C15: the walk handles a candidate as one atomic unit: between the probe of
\* the candidate and the write of its record, no step of the sweeper changes
\* the record of that candidate.
C15_CandidateAtomic ==
    [][walkVars' = walkVars /\ wpc \in WalkProbed => db'[pID] = db[pID]]_vars

\* The walk has probed a candidate and not yet taken the mutex, and the
\* sweeper is about to rewrite the record of that candidate.
C15_Witness ==
    /\ wpc = 272
    /\ spc = 114
    /\ key = pID
    /\ IsNode(db[pID])

SeenNotDeparted ==
    stored # ZeroNode /\ (stored.NAT \/ canConnectErrW = Nil)

\* The store after the refresh of the candidate: its record has the NAT that
\* was looked up and the new lastSeen; nothing else differs.
Refreshed ==
    [db EXCEPT ![pID] = Marshal([NAT |-> stored.NAT, lastSeen |-> timestamp])]

\* C17: when a candidate has a record and the case is not a departure, the
\* walk goes to the refresh branch, where it writes the record back with the
\* NAT it looked up and the new lastSeen and changes nothing else in the
\* store; when it releases the mutex the record is present and the counters
\* are as they were when it took the mutex.
C17_RefreshKeepsNat ==
    /\ [](wpc \in {281, 294, 296, 297, 300} => ~SeenNotDeparted)
    /\ [][wpc = 305 /\ wpc' = 308 => db' = Refreshed]_vars
    /\ [](wpc = 308 /\ SeenNotDeparted =>
            IsNode(db[pID]) /\ CounterSnapshot(db) = held)

\* A candidate stored with NAT = true, whose probe failed again, has been
\* refreshed.
C17_Witness ==
    /\ wpc = 308
    /\ stored = [NAT |-> TRUE, lastSeen |-> timestamp]
    /\ canConnectErrW # Nil
    /\ db[pID] = Marshal(stored)
    /\ CounterSnapshot(db) = held
    /\ CounterValue(db, totalCount) = 1

\* C18: keyspace separation. The key the sweeper probes, rewrites or deletes
\* has no "."; a counter key never holds a peer record; and a counter key
\* that holds a number holds a number in every later state.
C18_KeyspaceSeparation ==
    /\ [](key # None => SplitLen(key) = 1)
    /\ [](\A k \in Counters : db[k].kind \in {"absent", "int"})
    /\ [][\A k \in Counters : db[k].kind = "int" => db'[k].kind = "int"]_vars

\* The sweeper is about to delete a peer key read from a store that also
\* holds the four counters.
C18_Witness ==
    /\ spc = 110
    /\ key = PeerB
    /\ \A k \in Counters : db[k].kind = "int"

\* C19: from the empty store, whenever the mutex is free and the sweeper is
\* between two entries (it has no entry in hand, so no write of it is
\* pending), "total.count" is the number of peer records in the store.
C19_CountMatchesRecords ==
    mux = "free" /\ key = None =>
      CounterValue(db, totalCount) = Cardinality(PeerRecords(db))

\* Both loops have handled the departure of the same peer: the store is
\* empty and "total.count" is below zero.
C19_Witness ==
    /\ mux = "free"
    /\ key = None
    /\ PeerRecords(db) = {}
    /\ CounterValue(db, totalCount) = -1

\* C20: from the empty store, no counter is ever negative.
C20_CountersNonNegative ==
    \A k \in Counters : CounterValue(db, k) >= 0

====
